---- MODULE Spec2Model ----
(***************************************************************************)
(* State-machine model of astroNN.apogee.downloader (src/downloader.py).  *)
(*                                                                         *)
(* The seven public fetch operations are modelled as frames on a call     *)
(* stack (each operation calls itself with flag=1 on a checksum           *)
(* mismatch).  The remote server is the environment: every network        *)
(* request is answered nondeterministically.  The local cache (files,     *)
(* checksum manifests, folders) and the process-wide credentials are the  *)
(* persistent state.                                                       *)
(***************************************************************************)
EXTENDS Integers, Sequences, FiniteSets, TLC

\* ------------------------------------------------------------------ bounds
\* number of top-level calls made by the process in one behaviour
MaxCalls == 2
\* depth of the call stack at which the server stops answering with bytes
\* that would trigger one more recursive call
MaxDepth == 3

\* --------------------------------------------------------------- constants
\* Python's None; an f-string formats it as the text "None"
None == "None"
\* line 19: warning_flag = False.  Paths are non-empty tuples, so the empty
\* tuple is a value distinct from every path.
warning_flag == <<>>
\* the only supported data release (lines 87, 156, 226, 301, 415, 519, 587)
SupportedDr == 17

Simple == {"allstar", "apogee_astronn", "allvisit", "apogee_rc", "apogee_distances"}
Spectra == {"combined_spectra", "visit_spectra"}
Ops == Simple \cup Spectra

Telescopes == {"apo25m", "lco25m"}
Fields == {"F"}
Flags == {None, "0", "1"}
Drs == {16, 17}
Usernames == {"u1"}
Passwords == {"p1"}

\* HTTP status codes the server answers with when it refuses
HttpCodes == {"401", "404", "500"}
\* answers to urlretrieve of a data file
DlResponses == {"genuine", "corrupt", "URLError"} \cup HttpCodes
\* answers to urlopen of the parent listing
OpenResponses == {"ok", "URLError"} \cup HttpCodes

\* ------------------------------------------------- descriptors and templating
\* the arguments a call is made with
Descriptor(op, tel, field, comm, flag) ==
    [op |-> op, tel |-> tel, field |-> field, comm |-> comm, flag |-> flag]

\* the descriptors a caller can pass
TopDescs ==
    {Descriptor(op, "", "", FALSE, fl) : op \in Simple, fl \in Flags}
    \cup {Descriptor("combined_spectra", t, f, FALSE, fl) :
             t \in Telescopes, f \in Fields, fl \in Flags}
    \cup {Descriptor("visit_spectra", x[1], x[2], x[3], fl) :
             x \in Telescopes \X Fields \X BOOLEAN, fl \in Flags}

\* the arguments of the recursive call made on a checksum mismatch
Recur(d) ==
    IF d.op \in Simple
    THEN [d EXCEPT !.flag = "1"]
    ELSE Descriptor(d.op, None, None, FALSE, "1")

AllDescs == TopDescs \cup {Recur(d) : d \in TopDescs}

filename(d) ==
    CASE d.op = "allstar" -> "allStar-dr17-synspec.fits"
      [] d.op = "apogee_astronn" -> "apogee_astroNN-DR17.fits"
      [] d.op = "allvisit" -> "allVisit-dr17-synspec.fits"
      [] d.op = "apogee_rc" -> "apogee-rc-DR17.fits"
      [] d.op = "apogee_distances" -> "APOGEE_DR17_EDR3_STARHORSE_v2.fits"
      [] d.op = "combined_spectra" -> "aspcapStar-dr17-A.fits"
      [] d.op = "visit_spectra" ->
            IF d.tel = "lco25m"
            THEN (IF d.comm THEN "asStarC-dr17-A.fits" ELSE "asStar-dr17-A.fits")
            ELSE (IF d.comm THEN "apStarC-dr17-A.fits" ELSE "apStar-dr17-A.fits")

\* the part of the path below the archive root, shared by URL and local folder
relfolder(d) ==
    CASE d.op = "allstar" -> <<"dr17/apogee/spectro/aspcap/dr17/synspec", "", "">>
      [] d.op = "apogee_astronn" -> <<"dr17/apogee/vac/apogee-astronn", "", "">>
      [] d.op = "allvisit" -> <<"dr17/apogee/spectro/aspcap/dr17/synspec", "", "">>
      [] d.op = "apogee_rc" -> <<"dr17/apogee/vac/apogee-rc/cat", "", "">>
      [] d.op = "apogee_distances" -> <<"dr17/apogee/vac/apogee-starhorse", "", "">>
      [] d.op = "combined_spectra" ->
            <<"dr17/apogee/spectro/aspcap/dr17/synspec", d.tel, d.field>>
      [] d.op = "visit_spectra" ->
            <<"dr17/apogee/spectro/redux/dr17/stars", d.tel, d.field>>

fullfoldername(d) == <<"apogee_env">> \o relfolder(d)
fullfilename(d) == fullfoldername(d) \o <<filename(d)>>
str1(d) == <<"https://data.sdss.org/sas">> \o relfolder(d)
urlstr(d) == str1(d) \o <<filename(d)>>

hash_filename(d) ==
    IF d.op = "combined_spectra" THEN "dr17_synspec.sha1sum" ELSE "dr17_stars.sha1sum"
full_hash_filename(d) == fullfoldername(d) \o <<hash_filename(d)>>

AllPaths == {fullfilename(d) : d \in AllDescs}
SpectraDescs == {d \in AllDescs : d.op \in Spectra}
HashPaths == {full_hash_filename(d) : d \in SpectraDescs}
AllFolders == {fullfoldername(d) : d \in AllDescs}

\* ------------------------------------------------------------------ checksums
\* filehash(fullfilename, algorithm="sha1"): the digest of the bytes
filehash(bytes) == <<"sha1", bytes>>

\* the file names a remote folder's manifest can list; an apStar folder's
\* manifest lists the star's apStar file and not its commissioning file
DirNames(d) ==
    IF d.op = "combined_spectra" THEN {"aspcapStar-dr17-A.fits"}
    ELSE IF d.tel = "lco25m" THEN {"asStar-dr17-A.fits", "asStarC-dr17-A.fits"}
    ELSE {"apStar-dr17-A.fits"}

\* the manifests the server can serve for a folder, as (checksum, filename)
\* rows: the full listing, or one that lacks the folder's files
ServedRows(d) == {{}, {<<filehash(n), n>> : n \in DirNames(d)}}
AllRows == UNION {ServedRows(d) : d \in SpectraDescs}

\* f"apStar-{reduce_prefix}-{apogee}" in item (line 462), on the file names
\* of the model
InItem(item) == item \in {"apStar-dr17-A.fits", "aspcapStar-dr17-A.fits"}

\* the shape of each operation's download block
\* lines 103/114 and 171/182: two separate "if" statements; the other
\* operations use "if ... elif ..." (lines 240/249, 338/351, 466/479,
\* 534/544, 601/611)
TwoIfs(op) == op \in {"allstar", "apogee_astronn"}

\* what the operation's "except urllib.error.HTTPError" clause does:
\* "codes" tells 401, 404 and the rest apart (lines 129-137, 197-205,
\* 365-373, 493-501, 559-567); "any" treats every HTTPError alike (lines
\* 626-628); allvisit has no try statement at all (lines 249-262)
Catches(op) ==
    CASE op = "allvisit" -> "none"
      [] op = "apogee_distances" -> "any"
      [] OTHER -> "codes"

\* ---------------------------------------------------------------------- state
VARIABLES
    fs,         \* local data files: path -> "absent" or the bytes stored
    sha1sums,   \* local checksum manifests: path -> [isfile, rows]
    dirs,       \* the local folders that exist
    user,       \* __apogee_credentials_username
    pw,         \* __apogee_credentials_pw
    stack,      \* the frames of the running call, innermost last
    ncalls,     \* top-level calls made so far
    cur,        \* the arguments of the latest top-level call
    outcome,    \* how the latest top-level call ended
    h           \* what the latest top-level call has done so far

vars == <<fs, sha1sums, dirs, user, pw, stack, ncalls, cur, outcome, h>>

NoFile == [isfile |-> FALSE, rows |-> {}]
NoExc == [type |-> "", code |-> ""]
Exc(type, code) == [type |-> type, code |-> code]

Running == [kind |-> "running", val |-> warning_flag, exc |-> NoExc]
Returned(v) == [kind |-> "return", val |-> v, exc |-> NoExc]
Raised(e) == [kind |-> "raise", val |-> warning_flag, exc |-> e]

\* a frame just after its templating block; fullfilename is the local
\* variable the operation returns
NewFrame(d) ==
    [d |-> d,
     pc |-> IF d.op \in Spectra THEN "hash" ELSE "check",
     fullfilename |-> fullfilename(d),
     exc |-> NoExc]

Top == stack[Len(stack)]
SetTop(f) == [stack EXCEPT ![Len(stack)] = f]

\* the record of a call that has done nothing yet
\* file, sums, dirs, user: the cache and the credentials as the call found
\* them
Fresh(d) ==
    [file |-> fs[fullfilename(d)],
     sums |-> IF d.op \in Spectra THEN sha1sums[full_hash_filename(d)] ELSE NoFile,
     dirs |-> dirs,
     user |-> user,
     net |-> 0, dls |-> 0, dlall |-> 0,
     fsop |-> FALSE, seen |-> {}]

\* the record after a step that made net network requests and stored dls
\* data files; an event of the top-level frame is also noted as "top_..."
Note(net, dls, tags) ==
    [h EXCEPT !.net = @ + net, !.dlall = @ + dls,
              !.seen = @ \cup tags \cup
                       (IF Len(stack) = 1 THEN {"top_" \o t : t \in tags} ELSE {}),
              !.dls = @ + (IF dls > 0 /\ fullfilename(Top.d) = fullfilename(cur.d)
                           THEN dls ELSE 0)]

\* np.loadtxt(full_hash_filename) (lines 333, 452): the rows of the manifest
hash_list(d) == sha1sums[full_hash_filename(d)].rows

\* the expected checksums: hard-coded (lines 88, 164, 227, 520, 588), looked
\* up by file name (line 336) or by the apStar pattern (lines 459-464)
file_hash(d) ==
    IF d.op \in Simple THEN {filehash(filename(d))}
    ELSE IF d.op = "combined_spectra"
         THEN {r[1] : r \in {x \in hash_list(d) : x[2] = filename(d)}}
         ELSE {r[1] : r \in {x \in hash_list(d) : InItem(x[2])}}

\* a slip in the comparison: an expected checksum that no file matches
Mismatch_Stale(d, bytes) == file_hash(d) # {}

\* checksum != file_hash (and len(file_hash) != 0)
Mismatch(d, bytes) == file_hash(d) # {} /\ filehash(bytes) \notin file_hash(d)

\* os.path.isfile(fullfilename)
isfile(d) == fs[fullfilename(d)] # "absent"

Init ==
    \E d \in {t \in TopDescs : t.flag = None} :
    \E b \in {"absent", "corrupt", filename(d)} :
    \E m \in {NoFile} \cup {[isfile |-> TRUE, rows |-> rs] : rs \in ServedRows(d)} :
        /\ fs = [p \in AllPaths |-> IF p = fullfilename(d) THEN b ELSE "absent"]
        /\ sha1sums = [q \in HashPaths |->
                         IF d.op \in Spectra /\ q = full_hash_filename(d)
                         THEN m ELSE NoFile]
        /\ dirs = IF b # "absent" \/ (d.op \in Spectra /\ m.isfile)
                  THEN {fullfoldername(d)} ELSE {}
        /\ user = None
        /\ pw = None
        /\ stack = <<>>
        /\ ncalls = 0
        /\ cur = [d |-> d, dr |-> SupportedDr]
        /\ outcome = [kind |-> "idle", val |-> warning_flag, exc |-> NoExc]
        /\ h = [file |-> b, sums |-> IF d.op \in Spectra THEN m ELSE NoFile,
                dirs |-> IF b # "absent" \/ (d.op \in Spectra /\ m.isfile)
                         THEN {fullfoldername(d)} ELSE {},
                user |-> None,
                net |-> 0, dls |-> 0, dlall |-> 0,
                fsop |-> FALSE, seen |-> {}]

\* a slip in the manifest test: the manifest is taken to be local
hash_isfile_Assumed(d) == TRUE

\* os.path.isfile(full_hash_filename) (lines 325, 444)
hash_isfile(d) == sha1sums[full_hash_filename(d)].isfile

\* a slip in the release test: the range the error messages name
Supported_Range(dr) == dr \in 13..17

\* "if dr == 17:" (lines 87, 156, 226, 301, 415, 519, 587)
Supported(dr) == dr = SupportedDr

\* a slip in the 401 branch: the credentials are not cleared
CachedAfter_Kept(cached, typed, r) == IF user = None THEN typed ELSE cached

\* a cached credential after __apogee_credentials_downloader has run: typed
\* is what the user enters when prompted, r the answer to the retrieval
\* (lines 38-43 and 59-61)
CachedAfter(cached, typed, r) ==
    IF r = "401" THEN None
    ELSE IF user = None THEN typed ELSE cached

\* ------------------------------------------------------------------- actions
\* A top-level call: the templating block of the operation (lines 85-100,
\* 154-168, 223-237, 298-321, 412-440, 517-531, 585-598).  dr is the value
\* apogee_default_dr returned.  One behaviour follows a process that works
\* with one operation (the operations share nothing but the credentials);
\* its first call asks for the artifact whose cache state Init chose.
Call(d, dr) ==
    /\ stack = <<>>
    /\ ncalls < MaxCalls
    /\ d.op = cur.d.op
    /\ ncalls = 0 => fullfilename(d) = fullfilename(cur.d)
    /\ ncalls' = ncalls + 1
    /\ cur' = [d |-> d, dr |-> dr]
    /\ IF Supported(dr)
       THEN /\ dirs' = dirs \cup {fullfoldername(d)}
            /\ stack' = <<NewFrame(d)>>
            /\ outcome' = Running
            /\ h' = [Fresh(d) EXCEPT !.fsop = TRUE]
       ELSE /\ outcome' = Raised(Exc("ValueError", ""))
            /\ h' = Fresh(d)
            /\ UNCHANGED <<dirs, stack>>
    /\ UNCHANGED <<fs, sha1sums, user, pw>>

\* the frame after its except clause has handled an HTTPError with the given
\* status code
Handle(f, code) ==
    CASE Catches(f.d.op) = "none" ->
            [f EXCEPT !.pc = "raise", !.exc = Exc("HTTPError", code)]
      [] Catches(f.d.op) = "any" ->
            [f EXCEPT !.pc = "ret", !.fullfilename = warning_flag]
      [] OTHER ->
            IF code = "401"
            THEN [f EXCEPT !.pc = "cred"]
            ELSE [f EXCEPT !.pc = "ret", !.fullfilename = warning_flag]

\* the recursive call op(dr=dr, ..., flag=1): the caller waits at "at", the
\* callee runs its templating block (which creates its folder)
Recurse(at) ==
    /\ stack' = Append(SetTop([Top EXCEPT !.pc = at]), NewFrame(Recur(Top.d)))
    /\ dirs' = dirs \cup {fullfoldername(Recur(Top.d))}

\* "check hash file" of combined_spectra and visit_spectra (lines 323-331,
\* 442-450): o answers urlopen(str1), rs answers the manifest's urlretrieve
HashFile ==
    /\ stack # <<>>
    /\ Top.pc = "hash"
    /\ LET d == Top.d
           q == full_hash_filename(d)
       IN  IF hash_isfile(d)
           THEN /\ stack' = SetTop([Top EXCEPT !.pc = "check"])
                /\ h' = Note(0, 0, {})
                /\ UNCHANGED sha1sums
           ELSE \E o \in OpenResponses :
                  CASE o \in HttpCodes ->
                         /\ stack' = SetTop([Top EXCEPT !.pc = "ret",
                                                        !.fullfilename = warning_flag])
                         /\ h' = Note(1, 0, {"listing", "listing_error"})
                         /\ UNCHANGED sha1sums
                    [] o = "URLError" ->
                         /\ stack' = SetTop([Top EXCEPT !.pc = "raise",
                                                        !.exc = Exc("URLError", "")])
                         /\ h' = Note(1, 0, {"listing", "listing_URLError"})
                         /\ UNCHANGED sha1sums
                    [] OTHER ->
                         \E r \in {"rows", "URLError"} \cup HttpCodes :
                           CASE r = "rows" ->
                                  \E rs \in ServedRows(d) :
                                    /\ sha1sums' = [sha1sums EXCEPT ![q] =
                                                      [isfile |-> TRUE, rows |-> rs]]
                                    /\ stack' = SetTop([Top EXCEPT !.pc = "check"])
                                    /\ h' = Note(2, 0, {"listing", "manifest_fetched"})
                             [] r = "URLError" ->
                                  /\ stack' = SetTop([Top EXCEPT !.pc = "raise",
                                                         !.exc = Exc("URLError", "")])
                                  /\ h' = Note(2, 0, {"listing", "manifest_error"})
                                  /\ UNCHANGED sha1sums
                             [] OTHER ->
                                  /\ stack' = SetTop([Top EXCEPT !.pc = "raise",
                                                         !.exc = Exc("HTTPError", r)])
                                  /\ h' = Note(2, 0, {"listing", "manifest_error"})
                                  /\ UNCHANGED sha1sums
    /\ UNCHANGED <<fs, dirs, user, pw, ncalls, cur, outcome>>

\* "check file integrity" (lines 102-111, 170-179, 239-248, 338-349,
\* 466-477, 533-542, 600-609)
Integrity ==
    /\ stack # <<>>
    /\ Top.pc = "check"
    /\ LET d == Top.d
       IN  IF isfile(d) /\ d.flag = None
           THEN IF Mismatch(d, fs[fullfilename(d)])
                THEN /\ Recurse("after_check")
                     /\ h' = Note(0, 0, {"verified", "corruption"})
                ELSE /\ stack' = SetTop([Top EXCEPT !.pc =
                                           IF TwoIfs(d.op) THEN "dl" ELSE "ret"])
                     /\ h' = Note(0, 0, {"verified"})
                     /\ UNCHANGED dirs
           ELSE /\ stack' = SetTop([Top EXCEPT !.pc = "dl"])
                /\ h' = Note(0, 0, {})
                /\ UNCHANGED dirs
    /\ UNCHANGED <<fs, sha1sums, user, pw, ncalls, cur, outcome>>

\* the bytes a successful retrieval stores
Bytes(d, r) == IF r = "genuine" THEN filename(d) ELSE "corrupt"

\* "Check if files exists" and the download block (lines 113-137, 181-205,
\* 249-262, 351-373, 479-501, 544-567, 611-628): r answers urlretrieve
Download ==
    /\ stack # <<>>
    /\ Top.pc = "dl"
    /\ LET d == Top.d
       IN  IF ~isfile(d) \/ d.flag = "1"
           THEN \E r \in DlResponses :
                  CASE r \in {"genuine", "corrupt"} ->
                         /\ fs' = [fs EXCEPT ![fullfilename(d)] = Bytes(d, r)]
                         /\ IF Mismatch(d, Bytes(d, r))
                            THEN /\ Len(stack) < MaxDepth
                                 /\ Recurse("after_dl")
                                 /\ h' = Note(1, 1, {r, "verified", "corruption"})
                            ELSE /\ stack' = SetTop([Top EXCEPT !.pc = "ret"])
                                 /\ h' = Note(1, 1, {r, "verified"})
                                 /\ UNCHANGED dirs
                    [] r = "URLError" ->
                         /\ stack' = SetTop([Top EXCEPT !.pc = "raise",
                                                        !.exc = Exc("URLError", "")])
                         /\ h' = Note(1, 0, {"URLError"})
                         /\ UNCHANGED <<fs, dirs>>
                    [] OTHER ->
                         /\ stack' = SetTop(Handle(Top, r))
                         /\ h' = Note(1, 0, {r})
                         /\ UNCHANGED <<fs, dirs>>
           ELSE /\ stack' = SetTop([Top EXCEPT !.pc = "ret"])
                /\ h' = Note(0, 0, {})
                /\ UNCHANGED <<fs, dirs>>
    /\ UNCHANGED <<sha1sums, user, pw, ncalls, cur, outcome>>

\* __apogee_credentials_downloader(url, fullfilename) (lines 25-71): u and p
\* are what the user types when prompted, r answers the urlretrieve made
\* with basic auth
Credentials ==
    /\ stack # <<>>
    /\ Top.pc = "cred"
    /\ \E u \in Usernames, p \in Passwords, r \in DlResponses :
         LET d == Top.d
             tags == {"cred", "cred" \o r} \cup
                     (IF user = None THEN {"prompt"} ELSE {})
         IN  /\ user' = CachedAfter(user, u, r)
             /\ pw' = CachedAfter(pw, p, r)
             /\ dirs' = dirs \cup {fullfoldername(d)}
             /\ CASE r \in {"genuine", "corrupt"} ->
                       /\ fs' = [fs EXCEPT ![fullfilename(d)] = Bytes(d, r)]
                       /\ stack' = SetTop([Top EXCEPT !.pc = "ret"])
                       /\ h' = Note(1, 1, tags)
                  [] r = "401" ->
                       /\ stack' = SetTop([Top EXCEPT !.pc = "raise",
                                              !.exc = Exc("ConnectionError", "")])
                       /\ h' = Note(1, 0, tags)
                       /\ UNCHANGED fs
                  [] r = "URLError" ->
                       /\ stack' = SetTop([Top EXCEPT !.pc = "raise",
                                              !.exc = Exc("URLError", "")])
                       /\ h' = Note(1, 0, tags)
                       /\ UNCHANGED fs
                  [] OTHER ->
                       /\ stack' = SetTop([Top EXCEPT !.pc = "ret",
                                              !.fullfilename = warning_flag])
                       /\ h' = Note(1, 0, tags)
                       /\ UNCHANGED fs
    /\ UNCHANGED <<sha1sums, ncalls, cur, outcome>>

\* "return fullfilename" (lines 139, 207, 264, 330, 375, 449, 503, 569, 630):
\* the caller of a recursive call discards the value and goes on
Return ==
    /\ stack # <<>>
    /\ Top.pc = "ret"
    /\ IF Len(stack) = 1
       THEN /\ stack' = <<>>
            /\ outcome' = Returned(Top.fullfilename)
            /\ h' = h
       ELSE LET caller == stack[Len(stack) - 1]
                next == IF caller.pc = "after_check" /\ TwoIfs(caller.d.op)
                        THEN "dl" ELSE "ret"
            IN  /\ stack' = [SubSeq(stack, 1, Len(stack) - 1) EXCEPT
                               ![Len(stack) - 1] = [caller EXCEPT !.pc = next]]
                /\ h' = [h EXCEPT !.seen = @ \cup
                           (IF Len(stack) = 2 /\ Top.fullfilename = warning_flag
                            THEN {"refetch_not_found"} ELSE {})]
                /\ UNCHANGED outcome
    /\ UNCHANGED <<fs, sha1sums, dirs, user, pw, ncalls, cur>>

\* an exception leaves a frame: a recursive call made inside the caller's try
\* block (lines 128, 196, 362, 490, 558, 625) hands an HTTPError to the
\* caller's except clause; everything else propagates
Raise ==
    /\ stack # <<>>
    /\ Top.pc = "raise"
    /\ IF Len(stack) = 1
       THEN /\ stack' = <<>>
            /\ outcome' = Raised(Top.exc)
       ELSE LET caller == stack[Len(stack) - 1]
                after == IF Top.exc.type = "HTTPError" /\ caller.pc = "after_dl"
                         THEN Handle(caller, Top.exc.code)
                         ELSE [caller EXCEPT !.pc = "raise", !.exc = Top.exc]
            IN  /\ stack' = [SubSeq(stack, 1, Len(stack) - 1) EXCEPT
                               ![Len(stack) - 1] = after]
                /\ UNCHANGED outcome
    /\ UNCHANGED <<fs, sha1sums, dirs, user, pw, ncalls, cur, h>>

Next ==
    \/ \E d \in TopDescs, dr \in Drs : Call(d, dr)
    \/ HashFile
    \/ Integrity
    \/ Download
    \/ Credentials
    \/ Return
    \/ Raise

Spec == Init /\ [][Next]_vars

\* ------------------------------------------------------------- vocabulary
\* the latest top-level call has ended
Finished == stack = <<>> /\ outcome.kind \in {"return", "raise"}

\* the latest top-level call passed the release check
Started == ncalls > 0 /\ cur.dr = 17

\* the expected checksums of the requested file as the call found the cache:
\* hard-coded, or looked up in the manifest that was local
ExpectedAtCall ==
    IF cur.d.op \in Simple THEN {filehash(filename(cur.d))}
    ELSE IF cur.d.op = "combined_spectra"
         THEN {r[1] : r \in {x \in h.sums.rows : x[2] = filename(cur.d)}}
         ELSE {r[1] : r \in {x \in h.sums.rows : InItem(x[2])}}

\* the call found a local file whose checksum equals the expected one
ValidAtCall ==
    /\ h.file # "absent"
    /\ IF cur.d.op \in Spectra /\ ~h.sums.isfile
       THEN h.file = filename(cur.d)
       ELSE filehash(h.file) \in ExpectedAtCall

\* the call found a local file whose checksum differs from the expected one
CorruptAtCall ==
    /\ h.file # "absent"
    /\ cur.d.op \in Spectra => h.sums.isfile
    /\ ExpectedAtCall # {}
    /\ filehash(h.file) \notin ExpectedAtCall

\* every request of the call so far was answered with the genuine content
ServerGood ==
    h.seen \cap ({"corrupt", "URLError", "listing_error", "listing_URLError",
                  "manifest_error", "cred"} \cup HttpCodes) = {}

C2_AtMostOneRefetch == Started => h.dls <= 2

\* C3 as stated: a local file with a wrong checksum, the flag unset and a
\* server that serves the genuine content mean exactly one download of the
\* data file, no exception, and a local file that matches afterwards.
C3_ExactlyOneRefetch ==
    (Started /\ Finished /\ cur.d.flag = None /\ CorruptAtCall /\ ServerGood)
        => /\ h.dls = 1
           /\ outcome.kind = "return"
           /\ filehash(fs[fullfilename(cur.d)]) \in ExpectedAtCall

\* C4 as stated: a download of the data file answered with HTTP 404 makes
\* the call return the not-found sentinel, in every fetch operation.
C4_NotFoundSentinel ==
    (Started /\ Finished /\ "top_404" \in h.seen)
        => outcome = Returned(warning_flag)

\* C5 as stated: an anonymous download answered with HTTP 401 runs the
\* credential flow in every fetch operation: it prompts exactly when no
\* credentials are cached, caches what was entered, and returns the local
\* path when the retry succeeds.
C5_CredentialFlow ==
    (Started /\ Finished /\ "top_401" \in h.seen)
        => /\ "cred" \in h.seen
           /\ "prompt" \in h.seen <=> h.user = None
           /\ "cred401" \notin h.seen => user # None /\ pw # None
           /\ "credgenuine" \in h.seen => outcome = Returned(fullfilename(cur.d))

\* C6: a credentialed retry answered with HTTP 401 clears both cached
\* credentials and the call ends with ConnectionError; a call that starts
\* without cached credentials and reaches the credential flow prompts.
C6_AuthFailureClears ==
    Started =>
        /\ "cred401" \in h.seen =>
              /\ user = None
              /\ pw = None
              /\ stack # <<>> => Top.pc = "raise" /\ Top.exc.type = "ConnectionError"
              /\ Finished => outcome = Raised(Exc("ConnectionError", ""))
        /\ ("cred" \in h.seen /\ h.user = None) => "prompt" \in h.seen

C6_Witness ==
    /\ Started /\ Finished
    /\ "cred401" \in h.seen
    /\ h.user # None
    /\ user = None
    /\ outcome = Raised(Exc("ConnectionError", ""))

C8_TransportErrorSentinel ==
    (Started /\ Finished /\ ({"top_500", "top_URLError"} \cap h.seen # {}))
        => outcome = Returned(warning_flag)

\* C9 as stated: when the corrective re-fetch of a top-level call ends with
\* the not-found sentinel, the top-level call returns the sentinel.
C9_SentinelThreaded ==
    (Started /\ Finished /\ "top_corruption" \in h.seen
       /\ "refetch_not_found" \in h.seen /\ outcome.kind = "return")
        => outcome.val = warning_flag

\* C10: in combined_spectra and visit_spectra a frame verifies or downloads
\* a data file only with its folder's manifest local; a listing answered
\* with an HTTP error ends the call with the sentinel after that one
\* request; a call that finds the manifest local does not fetch it.
C10_ManifestFirst ==
    /\ \A i \in DOMAIN stack :
          (/\ stack[i].d.op \in Spectra
           /\ stack[i].pc \in {"check", "dl", "cred", "after_check", "after_dl"})
             => sha1sums[full_hash_filename(stack[i].d)].isfile
    /\ (Started /\ "top_listing_error" \in h.seen)
          => /\ h.net = 1
             /\ h.dlall = 0
             /\ ~sha1sums[full_hash_filename(cur.d)].isfile
             /\ fs[fullfilename(cur.d)] = h.file
             /\ Finished => outcome = Returned(warning_flag)
    /\ (Started /\ cur.d.op \in Spectra /\ h.sums.isfile)
          => /\ "top_listing" \notin h.seen
             /\ sha1sums[full_hash_filename(cur.d)] = h.sums

C10_Witness ==
    /\ Started /\ Finished
    /\ ncalls = 2
    /\ cur.d.op = "visit_spectra"
    /\ h.sums.isfile
    /\ h.file = "absent"
    /\ h.dls = 1
    /\ "listing" \notin h.seen
    /\ outcome = Returned(fullfilename(cur.d))

\* the local manifest of the requested folder has no row for the requested
\* file
NoEntry ==
    /\ cur.d.op \in Spectra
    /\ sha1sums[full_hash_filename(cur.d)].isfile
    /\ \A x \in sha1sums[full_hash_filename(cur.d)].rows : x[2] # filename(cur.d)

\* C11 as stated: in combined_spectra and visit_spectra a manifest without
\* an entry for the requested file means no verification: no corruption is
\* reported, no re-fetch is made, and an existing or freshly downloaded
\* file is returned as found.
C11_NoEntrySkipsCheck ==
    (Started /\ NoEntry)
        => /\ "top_corruption" \notin h.seen
           /\ Len(stack) <= 1
           /\ (Finished /\ h.file # "absent" /\ cur.d.flag = None)
                 => outcome = Returned(fullfilename(cur.d))
           /\ (Finished /\ {"top_genuine", "top_corrupt"} \cap h.seen # {})
                 => outcome = Returned(fullfilename(cur.d))

\* C12 as stated: flag=0 is the normal mode, so a call with flag=0 that
\* finds a local file (and, for spectra, a local manifest) performs the
\* integrity check a call with the flag omitted performs.
C12_FlagZeroIsNormal ==
    (/\ Started /\ Finished
     /\ cur.d.flag = "0"
     /\ h.file # "absent"
     /\ cur.d.op \in Spectra => h.sums.isfile)
        => "top_verified" \in h.seen

\* C13 as stated: every recursive call works on the URL and the local path
\* of the top-level request.
C13_SameArtifact ==
    Started =>
        \A i \in DOMAIN stack :
            /\ urlstr(stack[i].d) = urlstr(cur.d)
            /\ fullfilename(stack[i].d) = fullfilename(cur.d)

\* C14 as stated, for calls in the normal or the forced mode: a call that
\* returns a local path leaves a file at that path, and when an expected
\* checksum is known the file's checksum equals it.
C14_ReturnedPathIsValid ==
    (/\ Started /\ Finished
     /\ cur.d.flag # "0"
     /\ outcome.kind = "return"
     /\ outcome.val # warning_flag)
        => /\ fs[outcome.val] # "absent"
           /\ file_hash(cur.d) # {}
                 => filehash(fs[outcome.val]) \in file_hash(cur.d)
====
